---- MODULE Spec2Model ----
(***************************************************************************)
(* A model of get_junos_outputs.py: one run of main(), from the creation   *)
(* of the execution log to the final log entries.                          *)
(*                                                                         *)
(* Text is modelled as a sequence of symbols.  Text that the script fixes  *)
(* is one symbol per literal; text that comes from outside (the share URL, *)
(* the password, process output) is a sequence of short symbols, so that   *)
(* str.split, str.replace, `in` and os.path.basename are computed on it    *)
(* the way Python computes them.                                           *)
(*                                                                         *)
(* Environment: every subprocess.run() may return any of the modelled      *)
(* results or raise; a write of an output file may raise.  Appends to the  *)
(* execution log are taken to succeed, and --auto-update is off (its       *)
(* default).                                                               *)
(***************************************************************************)
EXTENDS Integers, Sequences, FiniteSets, TLC

(***************************************************************************)
(* Python string operations, on sequences of symbols.                      *)
(***************************************************************************)

\* index of the first occurrence of sub in s at or after position from, 0 if none
Find(s, sub, from) ==
    LET hits == { i \in from..(Len(s) - Len(sub) + 1) :
                      SubSeq(s, i, i + Len(sub) - 1) = sub }
    IN IF hits = {} THEN 0 ELSE CHOOSE i \in hits : \A j \in hits : i <= j

\* Python: sub in s
Contains(s, sub) == Find(s, sub, 1) # 0

\* Python: s.split(sep), sep non-empty: cuts at every occurrence, left to right
RECURSIVE Split(_, _)
Split(s, sep) ==
    LET i == Find(s, sep, 1)
    IN IF i = 0 THEN << s >>
       ELSE << SubSeq(s, 1, i - 1) >> \o Split(SubSeq(s, i + Len(sep), Len(s)), sep)

\* Python: s.replace(old, new), old non-empty
RECURSIVE Replace(_, _, _)
Replace(s, old, new) ==
    LET i == Find(s, old, 1)
    IN IF i = 0 THEN s
       ELSE SubSeq(s, 1, i - 1) \o new \o Replace(SubSeq(s, i + Len(old), Len(s)), old, new)

\* Python: sep.join(parts)
RECURSIVE Join(_, _)
Join(parts, sep) ==
    IF parts = << >> THEN << >>
    ELSE IF Len(parts) = 1 THEN parts[1]
    ELSE parts[1] \o sep \o Join(Tail(parts), sep)

\* Python: os.path.basename(path): what follows the last "/"
RECURSIVE Basename(_)
Basename(path) ==
    LET i == Find(path, << "/" >>, 1)
    IN IF i = 0 THEN path ELSE Basename(SubSeq(path, i + 1, Len(path)))

\* the sequences over alphabet of length 0..n
RECURSIVE SeqsUpTo(_, _)
SeqsUpTo(alphabet, n) ==
    IF n = 0 THEN { << >> }
    ELSE LET shorter == SeqsUpTo(alphabet, n - 1)
         IN shorter \cup { Append(s, a) : s \in shorter, a \in alphabet }

\* the concatenation of a sequence of sequences
RECURSIVE Flatten(_)
Flatten(parts) == IF parts = << >> THEN << >> ELSE parts[1] \o Flatten(Tail(parts))

(***************************************************************************)
(* Bounds of the model.                                                    *)
(***************************************************************************)
MaxUrlParts == 4     \* a share URL is made of at most this many parts
MaxPwLen    == 1     \* a password has at most this many symbols
CallTime    == 1     \* seconds one subprocess.run() call takes

(***************************************************************************)
(* Inputs.                                                                 *)
(***************************************************************************)
\* Python None (and any falsy path): tested by `if archive_path:`
None == << >>

\* main: the ordered mapping of output filenames to commands
commands ==
    << [filename |-> "route_bgp.l3vpn0",
        command  |-> << "show route table bgp.l3vpn.0" >>],
       [filename |-> "route_bgp.l3vpn0_extensive",
        command  |-> << "show route table bgp.l3vpn.0 extensive" >>],
       [filename |-> "route_bgp.l3vpn-inet6_extensive",
        command  |-> << "show route table bgp.l3vpn-inet6.0 extensive | display xml | no-more" >>] >>

\* what the operator types at the three prompts of main
hostname == "device"
port     == "22"
username == "admin"

\* DEFAULT_UPLOAD_URL, as base, "/s/", token
DEFAULT_UPLOAD_URL == << "h", "/", "s", "/", "t" >>

\* the parts share URLs are made of
UrlParts == { << "h" >>, << "/", "s", "/" >>, << "s" >>, << "/" >> }

\* every share URL of at most MaxUrlParts parts
ShareURLs == { Flatten(ps) : ps \in SeqsUpTo(UrlParts, MaxUrlParts) }

\* the values of SUPPORT_FILES_PASSWORD in the environment; << >> is unset
Passwords == SeqsUpTo({ "p", "h", "*" }, MaxPwLen)

\* setup_output_directory: /var/tmp/junos_outputs_<host>_<timestamp>
setup_output_directory == << "/", "var", "/", "tmp", "/", "junos_outputs_local_ts" >>

\* main: log_file = os.path.join(output_dir, "execution_log.txt")
LogPath(output_dir) == output_dir \o << "/", "execution_log.txt" >>

(***************************************************************************)
(* What the environment can answer.                                        *)
(***************************************************************************)
Raised == [raised |-> TRUE, returncode |-> -1, stdout |-> << >>, stderr |-> << >>]

Completed(rc, out, err) ==
    [raised |-> FALSE, returncode |-> rc, stdout |-> out, stderr |-> err]

\* the control-master ssh: established, refused (with or without a message), not started
SetupResults ==
    { Completed(0, << "SSH Control Master connection established" >>, << >>),
      Completed(255, << >>, << "Permission denied" >>),
      Completed(255, << >>, << >>),
      Raised }

\* `echo $SHELL`: a shell path, nothing, a CLI syntax error, ssh not started
ProbeResults ==
    { Completed(0, << "/", "bin", "/", "sh" >>, << >>),
      Completed(0, << >>, << >>),
      Completed(1, << >>, << "syntax error" >>),
      Raised }

\* one command of the batch: the device's answers, a connection that ssh
\* could not make (ssh exits 255), and an ssh that could not be started
CommandResults ==
    { Completed(0, << "output" >>, << >>),
      Completed(0, << "output" >>, << "warning" >>),
      Completed(1, << "output" >>, << >>),
      Completed(1, << >>, << "error: command failed" >>),
      Completed(255, << >>, << "ssh: connect to host: No route to host" >>),
      Raised }

\* a command run: what ssh answered, and whether writing an output file raises
CommandRuns ==
    { [result |-> r, write_fails |-> FALSE] : r \in CommandResults }
    \cup { [result |-> Completed(0, << "output" >>, << >>), write_fails |-> TRUE],
           [result |-> Completed(1, << "output" >>, << >>), write_fails |-> TRUE] }

\* `ssh -O exit`: the master exits, the request fails (its status is not read), not started
CleanupResults == { "closed", "failed", "raised" }

(***************************************************************************)
(* State.                                                                  *)
(***************************************************************************)
VARIABLES
    pc,               \* where main() is
    upload_url,       \* args['upload_url']
    insecure,         \* args['insecure']
    password,         \* SUPPORT_FILES_PASSWORD in the process environment
    output_dir,       \* the output directory
    log,              \* the lines of execution_log.txt, None before it is created
    log_creations,    \* how many times the log was opened with mode 'w'
    files,            \* the other files of the output directory: path -> content
    clock,            \* time.time()
    start_total,      \* main: start_total
    control_success,  \* run_commands: control_success
    ssh_base_cmd,     \* run_commands: ssh_base_cmd
    in_shell_mode,    \* run_commands: in_shell_mode
    next_command,     \* index into commands of the next loop iteration
    execution_times,  \* run_commands: execution_times, in insertion order
    successful,       \* run_commands: successful
    control_master,   \* the device side: is a control master running
    sent,             \* every ssh invocation so far, in order
    answers,          \* what ssh answered to each command of the batch
    summary,          \* main: successful, len(commands), total_time, once computed
    archive_path,     \* main: archive_path
    archive,          \* the content of the archive file: path -> content
    upload_success,   \* main: upload_success
    transfers,        \* every transfer invocation so far, in order
    http_status       \* the status the server answered to the PUT, 0 if none

vars == << pc, upload_url, insecure, password, output_dir, log, log_creations,
           files, clock, start_total, control_success, ssh_base_cmd,
           in_shell_mode, next_command, execution_times, successful, control_master, sent,
           answers, summary, archive_path, archive, upload_success, transfers,
           http_status >>

\* LogAppend as if the log were opened with 'w': the lines replace its content
LogTruncate(lines) == log' = lines

\* with open(log_file, 'a') as log: log.write(...) for each of lines
LogAppend(lines) == log' = log \o lines

YesNo(b) == IF b THEN "Yes" ELSE "No"

\* the process is started with these arguments and this environment
Start(url, k, pw) ==
    /\ pc = "main"
    /\ upload_url = url
    /\ insecure = k
    /\ password = pw
    /\ output_dir = None
    /\ log = None
    /\ log_creations = 0
    /\ files = << >>
    /\ clock = 0
    /\ start_total = 0
    /\ control_success = FALSE
    /\ ssh_base_cmd = << >>
    /\ in_shell_mode = FALSE
    /\ next_command = 1
    /\ execution_times = << >>
    /\ successful = 0
    /\ control_master = FALSE
    /\ sent = << >>
    /\ answers = << >>
    /\ summary = << >>
    /\ archive_path = None
    /\ archive = << >>
    /\ upload_success = FALSE
    /\ transfers = << >>
    /\ http_status = 0

\* a run with the default arguments: parse_arguments() on an empty command line
Init == Start(DEFAULT_UPLOAD_URL, FALSE, << >>)

\* a run with any share URL, insecure flag and password
InitUpload ==
    \E url \in ShareURLs, k \in BOOLEAN, pw \in Passwords : Start(url, k, pw)

(***************************************************************************)
(* main, up to the call of run_commands.                                   *)
(***************************************************************************)
main ==
    /\ pc = "main"
    /\ output_dir' = setup_output_directory
    /\ log' = << << "Junos Output Retrieval Tool - Execution Log" >>,
                 << "Started at: ", ToString(clock) >>,
                 << "Upload URL: " >> \o upload_url,
                 << "Insecure mode: ", YesNo(insecure) >>,
                 << "Device: ", hostname, ":", port >>,
                 << "Username: ", username >> >>
    /\ log_creations' = log_creations + 1
    /\ start_total' = clock
    /\ pc' = "setup_ssh_control_master"
    /\ UNCHANGED << upload_url, insecure, password, files, clock, control_success,
                    ssh_base_cmd, in_shell_mode, next_command, execution_times,
                    successful, control_master, sent, answers, summary,
                    archive_path, archive, upload_success, transfers, http_status >>

(***************************************************************************)
(* setup_ssh_control_master                                                *)
(***************************************************************************)
control_path == "ControlPath=~/.ssh/cm/junos-ssh-%h-%p-%r"
user_at_host == "admin@device"

connection_cmd ==
    << "ssh", "-o", "ControlMaster=auto", "-o", "ControlPersist=60m",
       "-o", control_path, "-o", "StrictHostKeyChecking=no", "-p", port,
       user_at_host >>

control_ssh_cmd ==
    << "ssh", "-o", control_path, "-o", "StrictHostKeyChecking=no", "-p", port,
       user_at_host >>

plain_ssh_cmd ==
    << "ssh", "-o", "StrictHostKeyChecking=no", "-p", port, user_at_host >>

Invocation(kind, argv, remote) == [kind |-> kind, argv |-> argv, remote |-> remote]

setup_ssh_control_master(process) ==
    /\ pc = "setup_ssh_control_master"
    /\ sent' = Append(sent, Invocation("setup", connection_cmd,
                 << "echo 'SSH Control Master connection established'" >>))
    /\ clock' = clock + CallTime
    /\ IF process.raised
       THEN /\ LogAppend(<< << "Attempting to establish SSH control connection..." >>,
                            << "Error setting up SSH control connection: ", "exception" >> >>)
            /\ control_success' = FALSE
            /\ ssh_base_cmd' = plain_ssh_cmd
            /\ control_master' = FALSE
       ELSE IF process.returncode = 0
       THEN /\ LogAppend(<< << "Attempting to establish SSH control connection..." >>,
                            << "SSH control connection established successfully. You should only need to enter your password once." >> >>)
            /\ control_success' = TRUE
            /\ ssh_base_cmd' = control_ssh_cmd
            /\ control_master' = TRUE
       ELSE /\ LogAppend(<< << "Attempting to establish SSH control connection..." >>,
                            << "Failed to establish SSH control connection. You may be prompted for password multiple times." >> >>
                         \o (IF process.stderr # << >>
                             THEN << << "Error: " >> \o process.stderr >>
                             ELSE << >>))
            /\ control_success' = FALSE
            /\ ssh_base_cmd' = plain_ssh_cmd
            /\ control_master' = FALSE
    /\ pc' = "probe"
    /\ UNCHANGED << upload_url, insecure, password, output_dir, log_creations, files,
                    start_total, in_shell_mode, next_command, execution_times, successful,
                    answers, summary, archive_path, archive, upload_success,
                    transfers, http_status >>

(***************************************************************************)
(* run_commands                                                            *)
(***************************************************************************)

\* the mode probe: `echo $SHELL` over ssh_base_cmd; nothing catches what it raises
run_commands_probe(result) ==
    /\ pc = "probe"
    /\ sent' = Append(sent, Invocation("probe", ssh_base_cmd, << "echo $SHELL" >>))
    /\ clock' = clock + CallTime
    /\ IF result.raised
       THEN /\ LogAppend(<< << "Detecting Junos environment..." >> >>)
            /\ in_shell_mode' = in_shell_mode
            /\ pc' = "crashed"
       ELSE IF result.returncode = 0
               /\ (Contains(result.stdout, << "/" >>) \/ Contains(result.stdout, << "\\" >>))
       THEN /\ LogAppend(<< << "Detecting Junos environment..." >>,
                            << "Detected shell environment. Using 'cli' command to execute Junos commands." >> >>)
            /\ in_shell_mode' = TRUE
            /\ pc' = "run_commands"
       ELSE /\ LogAppend(<< << "Detecting Junos environment..." >>,
                            << "Detected Junos CLI environment. Executing commands directly." >> >>)
            /\ in_shell_mode' = FALSE
            /\ pc' = "run_commands"
    /\ UNCHANGED << upload_url, insecure, password, output_dir, log_creations, files,
                    start_total, control_success, ssh_base_cmd, next_command,
                    execution_times, successful, control_master, answers, summary,
                    archive_path, archive, upload_success, transfers, http_status >>

\* ExecCommand that ignores the mode: the command is always sent as it is
ExecCommandVerbatim(command, shell_mode) == command

\* the command text sent to the device
ExecCommand(command, shell_mode) ==
    IF shell_mode
    THEN << "cli -c ", "\"" >> \o Replace(command, << "\"" >>, << "\\", "\"" >>) \o << "\"" >>
    ELSE command

\* execution_times[filename] = (execution_time, success)
DictSet(d, filename, execution_time, success) ==
    LET item == [filename |-> filename, execution_time |-> execution_time,
                 success |-> success]
    IN IF \E i \in 1..Len(d) : d[i].filename = filename
       THEN [i \in 1..Len(d) |-> IF d[i].filename = filename THEN item ELSE d[i]]
       ELSE Append(d, item)

\* with open(path, 'w') as f: f.write(content)
WriteFile(fs, path, content) == (path :> content) @@ fs

\* the log lines of the `except Exception` branch of the loop body
ErrorLines(filename, execution_time) ==
    << << "An error occurred while executing command for ", filename, ": ", "exception" >>,
       << "Execution time: ", ToString(execution_time), " seconds (ERROR)" >> >>

\* the log lines of the non-zero return code branch
FailedLines(filename, process, execution_time) ==
    << << "Command for ", filename, " failed with exit code ", ToString(process.returncode) >>
          \o (IF process.stderr # << >> THEN << "Error: " >> \o process.stderr ELSE << >>),
       << "Execution time: ", ToString(execution_time), " seconds (FAILED)" >> >>

\* SavedLines as if the zero return code branch wrote nothing to the log
SavedLinesMissing(filename, output_path, execution_time) == << >>

\* the log lines of the zero return code branch
SavedLines(filename, output_path, execution_time) ==
    << << "Output saved to file: " >> \o output_path,
       << "Execution time for ", filename, ": ", ToString(execution_time), " seconds" >> >>

\* CommandError without line 347: the failed command leaves no result
CommandErrorUnrecorded(filename, execution_time, lines) ==
    /\ LogAppend(lines \o ErrorLines(filename, execution_time))
    /\ UNCHANGED << execution_times, files, successful >>

\* the except branch of the loop body: the command is recorded as not successful
CommandError(filename, execution_time, lines) ==
    /\ LogAppend(lines \o ErrorLines(filename, execution_time))
    /\ execution_times' = DictSet(execution_times, filename, execution_time, FALSE)
    /\ UNCHANGED << files, successful >>

\* CommandFailed as if subprocess.run(check=True) were left uncaught: the
\* non-zero status is logged as an error and no result is recorded
CommandFailedRaises(filename, process, output_path, execution_time, lines) ==
    /\ LogAppend(lines \o ErrorLines(filename, execution_time))
    /\ UNCHANGED << execution_times, files, successful >>

\* CommandFailed that writes the .err file only when stderr has content
CommandFailedErrIfAny(filename, process, output_path, execution_time, lines) ==
    /\ LogAppend(lines \o FailedLines(filename, process, execution_time))
    /\ files' = LET with_err == IF process.stderr # << >>
                                THEN WriteFile(files, output_path \o << ".err" >>,
                                               process.stderr)
                                ELSE files
                IN IF process.stdout # << >>
                   THEN WriteFile(with_err, output_path, process.stdout)
                   ELSE with_err
    /\ execution_times' = DictSet(execution_times, filename, execution_time, FALSE)
    /\ UNCHANGED successful

\* the return code is not 0
CommandFailed(filename, process, output_path, execution_time, lines) ==
    /\ LogAppend(lines \o FailedLines(filename, process, execution_time))
    /\ files' = LET with_err == WriteFile(files, output_path \o << ".err" >>, process.stderr)
                IN IF process.stdout # << >>
                   THEN WriteFile(with_err, output_path, process.stdout)
                   ELSE with_err
    /\ execution_times' = DictSet(execution_times, filename, execution_time, FALSE)
    /\ UNCHANGED successful

\* CommandSucceeded that records the success without writing the output file
CommandSucceededNoWrite(filename, process, output_path, execution_time, lines) ==
    /\ LogAppend(lines \o SavedLines(filename, output_path, execution_time))
    /\ execution_times' = DictSet(execution_times, filename, execution_time, TRUE)
    /\ successful' = successful + 1
    /\ UNCHANGED files

\* the return code is 0
CommandSucceeded(filename, process, output_path, execution_time, lines) ==
    /\ LogAppend(lines \o SavedLines(filename, output_path, execution_time))
    /\ files' = LET with_out == WriteFile(files, output_path, process.stdout)
                IN IF process.stderr # << >>
                   THEN WriteFile(with_out, output_path \o << ".err" >>, process.stderr)
                   ELSE with_out
    /\ execution_times' = DictSet(execution_times, filename, execution_time, TRUE)
    /\ successful' = successful + 1

\* AfterCommand without the `except Exception`: what ssh raised ends the run
AfterCommandUncaught(process) ==
    IF process.raised THEN "crashed"
    ELSE IF next_command = Len(commands) THEN "cleanup" ELSE "run_commands"

\* where the loop goes after an iteration: `except Exception` catches whatever
\* the iteration raised, so the next command follows, or the end of the loop
AfterCommand(process) ==
    IF next_command = Len(commands) THEN "cleanup" ELSE "run_commands"

\* one iteration of `for filename, command in commands.items()`
run_commands_execute(run) ==
    /\ pc = "run_commands"
    /\ next_command <= Len(commands)
    /\ LET filename == commands[next_command].filename
           command == commands[next_command].command
           process == run.result
           start_time == clock
           execution_time == (clock + CallTime) - start_time
           output_path == output_dir \o << "/", filename >>
           started == << << "Started executing command for ", filename, " at ",
                            ToString(start_time) >>,
                         << "Command: " >> \o command >>
       IN /\ sent' = Append(sent, Invocation("command", ssh_base_cmd,
                                             ExecCommand(command, in_shell_mode)))
          /\ answers' = Append(answers, run)
          /\ clock' = clock + CallTime
          /\ IF process.raised
             THEN CommandError(filename, execution_time, started)
             ELSE IF process.returncode # 0
             THEN IF run.write_fails
                  THEN CommandError(filename, execution_time,
                           started \o FailedLines(filename, process, execution_time))
                  ELSE CommandFailed(filename, process, output_path, execution_time, started)
             ELSE IF run.write_fails
                  THEN CommandError(filename, execution_time, started)
                  ELSE CommandSucceeded(filename, process, output_path, execution_time,
                                        started)
    /\ next_command' = next_command + 1
    /\ pc' = AfterCommand(run.result)
    /\ UNCHANGED << upload_url, insecure, password, output_dir, log_creations,
                    start_total, control_success, ssh_base_cmd, in_shell_mode,
                    control_master, summary, archive_path, archive, upload_success,
                    transfers, http_status >>

\* cleanup_cmd = ssh_base_cmd[:-1] + ["-O", "exit", hostname]
cleanup_cmd == SubSeq(ssh_base_cmd, 1, Len(ssh_base_cmd) - 1) \o << "-O", "exit", hostname >>

\* after the loop: tear the control master down if it was set up, and return
run_commands_cleanup(result) ==
    /\ pc = "cleanup"
    /\ IF control_success
       THEN /\ sent' = Append(sent, Invocation("exit", cleanup_cmd, << >>))
            /\ clock' = clock + CallTime
            /\ control_master' = IF result = "closed" THEN FALSE ELSE control_master
       ELSE UNCHANGED << sent, clock, control_master >>
    /\ pc' = "summary"
    /\ UNCHANGED << upload_url, insecure, password, output_dir, log, log_creations,
                    files, start_total, control_success, ssh_base_cmd, in_shell_mode,
                    next_command, execution_times, successful, answers, summary,
                    archive_path, archive, upload_success, transfers, http_status >>

(***************************************************************************)
(* main, after run_commands returned.                                      *)
(***************************************************************************)

\* CountSuccessful that counts every result, successful or not
CountSuccessfulAll(d) == Len(d)

\* sum(1 for _, (_, success) in execution_times.items() if success)
CountSuccessful(d) == Cardinality({ i \in 1..Len(d) : d[i].success })

main_summary ==
    /\ pc = "summary"
    /\ LET counted == CountSuccessful(execution_times)
           total_time == clock - start_total
       IN /\ summary' = [successful |-> counted, total |-> Len(commands),
                         total_time |-> total_time]
          /\ LogAppend(<< << "Completed ", ToString(counted), " of ",
                             ToString(Len(commands)), " commands successfully." >>,
                          << "Total execution time: ", ToString(total_time), " seconds" >> >>)
    /\ pc' = "compress_directory"
    /\ UNCHANGED << upload_url, insecure, password, output_dir, log_creations, files,
                    clock, start_total, control_success, ssh_base_cmd, in_shell_mode,
                    next_command, execution_times, successful, control_master, sent,
                    answers, archive_path, archive, upload_success, transfers,
                    http_status >>

(***************************************************************************)
(* compress_directory                                                      *)
(***************************************************************************)
\* compress_directory as if the archive were built after `Archive created`
\* was logged: the copy of the log in the archive has that line too
CompressAfterLogged(created) ==
    /\ pc = "compress_directory"
    /\ LET path == output_dir \o << ".tar.gz" >>
           compressing == << "Compressing directory " >> \o output_dir \o << " to " >> \o path
       IN IF created
          THEN /\ LogAppend(<< compressing,
                               << "Archive created: " >> \o path \o << " (", "size", ")" >> >>)
               /\ archive' = WriteFile(files, LogPath(output_dir), log')
               /\ archive_path' = path
          ELSE /\ LogAppend(<< compressing,
                               << "Error compressing directory: ", "exception" >> >>)
               /\ archive_path' = None
               /\ UNCHANGED archive
    /\ pc' = "delivery"
    /\ UNCHANGED << upload_url, insecure, password, output_dir, log_creations, files,
                    clock, start_total, control_success, ssh_base_cmd, in_shell_mode,
                    next_command, execution_times, successful, control_master, sent,
                    answers, summary, upload_success, transfers, http_status >>

compress_directory(created) ==
    /\ pc = "compress_directory"
    /\ LET path == output_dir \o << ".tar.gz" >>
           compressing == << "Compressing directory " >> \o output_dir \o << " to " >> \o path
       IN IF created
          THEN /\ archive' = WriteFile(files, LogPath(output_dir), Append(log, compressing))
               /\ LogAppend(<< compressing,
                               << "Archive created: " >> \o path \o << " (", "size", ")" >> >>)
               /\ archive_path' = path
          ELSE /\ LogAppend(<< compressing,
                               << "Error compressing directory: ", "exception" >> >>)
               /\ archive_path' = None
               /\ UNCHANGED archive
    /\ pc' = "delivery"
    /\ UNCHANGED << upload_url, insecure, password, output_dir, log_creations, files,
                    clock, start_total, control_success, ssh_base_cmd, in_shell_mode,
                    next_command, execution_times, successful, control_master, sent,
                    answers, summary, upload_success, transfers, http_status >>

(***************************************************************************)
(* upload_with_curl                                                        *)
(***************************************************************************)

\* the statuses the server may answer the PUT with
HttpStatuses == { 200, 201, 204, 401, 403, 404, 507 }

\* curl is run without --fail: it exits 0 whenever the server answered,
\* whatever the status, and non-zero when the transfer itself failed
CurlAnswered(status) ==
    [raised |-> FALSE, returncode |-> 0, stdout |-> << "response body" >>,
     stderr |-> << >>, http |-> status]

CurlResults ==
    { CurlAnswered(status) : status \in HttpStatuses }
    \cup { [raised |-> FALSE, returncode |-> 7, stdout |-> << >>,
            stderr |-> << "curl: (7) Failed to connect" >>, http |-> 0],
           [raised |-> TRUE, returncode |-> -1, stdout |-> << >>, stderr |-> << >>,
            http |-> 0] }

\* upload_url.split('/s/')
SplitURL(url) == Split(url, << "/", "s", "/" >>)

\* cloud_url = upload_url.split('/s/')[0]
CloudURL(url) == SplitURL(url)[1]

\* folder_token = upload_url.split('/s/')[1]; IndexError without a second piece
HasToken(url) == Len(SplitURL(url)) >= 2
FolderToken(url) == SplitURL(url)[2]

\* endpoint = f"{cloud_url}/public.php/webdav/{filename}"
Endpoint(url, path) == CloudURL(url) \o << "/public.php/webdav/" >> \o Basename(path)

\* CurlCmd that never passes -k: the insecure flag is dropped
CurlCmdSecureOnly(url, path, k, pw) ==
    << << "curl" >>,
       << "-u" >>, FolderToken(url) \o << ":" >> \o pw,
       << "-H" >>, << "X-Requested-With: XMLHttpRequest" >>,
       << "-T" >>, path,
       Endpoint(url, path) >>

\* the argument list of the curl invocation
CurlCmd(url, path, k, pw) ==
    << << "curl" >> >>
    \o (IF k THEN << << "-k" >> >> ELSE << >>)
    \o << << "-u" >>, FolderToken(url) \o << ":" >> \o pw,
          << "-H" >>, << "X-Requested-With: XMLHttpRequest" >>,
          << "-T" >>, path,
          Endpoint(url, path) >>

\* arg if not password or password not in arg else arg.replace(password, '********')
MaskArg(arg, pw) ==
    IF pw = << >> \/ ~Contains(arg, pw)
    THEN arg
    ELSE Replace(arg, pw, << "*", "*", "*", "*", "*", "*", "*", "*" >>)

\* safe_cmd = ' '.join([... for arg in curl_cmd])
SafeCmd(curl_cmd, pw) ==
    Join([i \in 1..Len(curl_cmd) |-> MaskArg(curl_cmd[i], pw)], << " " >>)

\* UploadLines with the failures swallowed: nothing is logged about the outcome
UploadLinesSilent(url, path, k, pw, result) ==
    IF ~HasToken(url)
    THEN << >>
    ELSE << << "Uploading archive to Nextcloud..." >>,
            << "Cloud URL: " >> \o CloudURL(url),
            << "Folder Token: " >> \o FolderToken(url),
            << "Running curl command: " >> \o SafeCmd(CurlCmd(url, path, k, pw), pw) >>

\* the log lines written by one call, given what curl answered
UploadLines(url, path, k, pw, result) ==
    IF ~HasToken(url)
    THEN << << "Error using curl for upload: ", "exception" >> >>
    ELSE << << "Uploading archive to Nextcloud..." >>,
            << "Cloud URL: " >> \o CloudURL(url),
            << "Folder Token: " >> \o FolderToken(url),
            << "Running curl command: " >> \o SafeCmd(CurlCmd(url, path, k, pw), pw) >>
         \o (IF result.raised
             THEN << << "Error using curl for upload: ", "exception" >> >>
             ELSE IF result.returncode = 0
             THEN << << "Upload successful using curl!" >> >>
             ELSE << << "Upload failed using curl. Return code: ",
                        ToString(result.returncode) >>,
                     << "stdout: " >> \o result.stdout,
                     << "stderr: " >> \o result.stderr >>)

\* UploadReturns as if the URL had been split without indexing [1]: a URL
\* without /s/ does not fail the upload
UploadReturnsUnsplit(url, result) == ~result.raised /\ result.returncode = 0

\* the value upload_with_curl returns
UploadReturns(url, result) ==
    HasToken(url) /\ ~result.raised /\ result.returncode = 0

\* ArchiveCreated without the test: main uploads whatever compress_directory returned
ArchiveCreatedUntested == TRUE

\* main: `if archive_path:`
ArchiveCreated == archive_path # None

upload_with_curl(result) ==
    /\ pc = "delivery"
    /\ ArchiveCreated
    /\ LogAppend(UploadLines(upload_url, archive_path, insecure, password, result))
    /\ IF HasToken(upload_url)
       THEN /\ transfers' = Append(transfers,
                   [mechanism |-> "curl",
                    argv |-> CurlCmd(upload_url, archive_path, insecure, password)])
            /\ http_status' = result.http
       ELSE UNCHANGED << transfers, http_status >>
    /\ upload_success' = UploadReturns(upload_url, result)
    /\ pc' = "uploaded"
    /\ UNCHANGED << upload_url, insecure, password, output_dir, log_creations, files,
                    clock, start_total, control_success, ssh_base_cmd, in_shell_mode,
                    next_command, execution_times, successful, control_master, sent,
                    answers, summary, archive_path, archive >>

\* main: the log lines after the upload
main_uploaded ==
    /\ pc = "uploaded"
    /\ LogAppend(<< << "Upload successful: ", YesNo(upload_success) >>,
                    << "Finished at: ", ToString(clock) >> >>)
    /\ pc' = "done"
    /\ UNCHANGED << upload_url, insecure, password, output_dir, log_creations, files,
                    clock, start_total, control_success, ssh_base_cmd, in_shell_mode,
                    next_command, execution_times, successful, control_master, sent,
                    answers, summary, archive_path, archive, upload_success, transfers,
                    http_status >>

\* main: no archive, the upload is skipped
main_upload_skipped ==
    /\ pc = "delivery"
    /\ ~ArchiveCreated
    /\ LogAppend(<< << "Failed to create archive. Upload skipped." >>,
                    << "Finished at: ", ToString(clock) >> >>)
    /\ pc' = "done"
    /\ UNCHANGED << upload_url, insecure, password, output_dir, log_creations, files,
                    clock, start_total, control_success, ssh_base_cmd, in_shell_mode,
                    next_command, execution_times, successful, control_master, sent,
                    answers, summary, archive_path, archive, upload_success, transfers,
                    http_status >>

(***************************************************************************)
(* Specifications.                                                         *)
(***************************************************************************)
Next ==
    \/ main
    \/ \E process \in SetupResults : setup_ssh_control_master(process)
    \/ \E result \in ProbeResults : run_commands_probe(result)
    \/ \E run \in CommandRuns : run_commands_execute(run)
    \/ \E result \in CleanupResults : run_commands_cleanup(result)
    \/ main_summary
    \/ \E created \in BOOLEAN : compress_directory(created)
    \/ \E result \in CurlResults : upload_with_curl(result)
    \/ main_uploaded
    \/ main_upload_skipped

\* a run with the default arguments against any device and any server
Spec == Init /\ [][Next]_vars

\* the device answers every command: exit status 0, output, nothing on stderr
WellBehaved == [result |-> Completed(0, << "output" >>, << >>), write_fails |-> FALSE]

NextUpload ==
    \/ main
    \/ setup_ssh_control_master(Completed(0, << "SSH Control Master connection established" >>, << >>))
    \/ run_commands_probe(Completed(0, << >>, << >>))
    \/ run_commands_execute(WellBehaved)
    \/ run_commands_cleanup("closed")
    \/ main_summary
    \/ compress_directory(TRUE)
    \/ \E result \in CurlResults : upload_with_curl(result)
    \/ main_uploaded

\* a run with any share URL, insecure flag and password against a device
\* that answers every command, and any server
SpecUpload == InitUpload /\ [][NextUpload]_vars

(***************************************************************************)
(* Vocabulary of the properties.                                           *)
(***************************************************************************)

\* run_commands has returned to main
Returned == pc \in { "summary", "compress_directory", "delivery", "uploaded", "done" }

\* the run is over: main returned, or an uncaught exception ended the process
Ended == pc \in { "done", "crashed" }

\* the indices of the commands ssh has been run for
Attempted == 1..Len(answers)

\* command i has a result in execution_times
HasResult(i) == \E j \in 1..Len(execution_times) :
                    execution_times[j].filename = commands[i].filename

\* the result of command i
ResultOf(i) == execution_times[CHOOSE j \in 1..Len(execution_times) :
                                    execution_times[j].filename = commands[i].filename]

\* the ssh invocations that carried a command of the batch
CommandsSent == { k \in 1..Len(sent) : sent[k].kind = "command" }

\* the log lines that start with head
LinesWith(head) == { k \in 1..Len(log) : log[k][1] = head }

\* the log lines that start with head and name filename next
LinesFor(head, filename) ==
    { k \in 1..Len(log) : Len(log[k]) >= 2 /\ log[k][1] = head /\ log[k][2] = filename }

(***************************************************************************)
(* C1: when run_commands returns, execution_times has exactly one entry    *)
(* per command, in the order of commands, whatever each command's outcome  *)
(* and whatever the control-master setup and the probe answered; until     *)
(* then it holds the entries of the commands run so far, in that order.    *)
(***************************************************************************)
C1_OneResultPerCommandInOrder ==
    /\ Len(execution_times) <= Len(commands)
    /\ \A i \in 1..Len(execution_times) :
           execution_times[i].filename = commands[i].filename
    /\ Returned => Len(execution_times) = Len(commands)

\* run_commands returned from a batch in which ssh raised for one command,
\* returned a non-zero status for another and succeeded for a third
C1_Witness ==
    /\ pc = "summary"
    /\ \E i, j, k \in Attempted :
          /\ answers[i].result.raised
          /\ ~answers[j].result.raised /\ answers[j].result.returncode # 0
          /\ ~answers[k].result.raised /\ answers[k].result.returncode = 0

(***************************************************************************)
(* C2: when subprocess.run raises for command i, the batch goes on: a      *)
(* result (not successful) is recorded for command i, the run does not     *)
(* end there, the loop moves to command i+1, and once run_commands has     *)
(* returned every command of the batch was sent and has its own result.    *)
(***************************************************************************)
C2_TransportErrorDoesNotAbort ==
    \A i \in Attempted :
        answers[i].result.raised =>
            /\ HasResult(i) /\ ~ResultOf(i).success
            /\ pc # "crashed"
            /\ pc = "run_commands" => next_command = Len(answers) + 1
                                      /\ next_command <= Len(commands)
            /\ pc # "run_commands" =>
                   /\ Cardinality(CommandsSent) = Len(commands)
                   /\ \A j \in 1..Len(commands) : HasResult(j)

\* ssh raised for the first command and the two later ones were still run
C2_Witness ==
    /\ Len(answers) = Len(commands)
    /\ answers[1].result.raised
    /\ \A j \in 2..Len(commands) : ~answers[j].result.raised /\ HasResult(j)

(***************************************************************************)
(* C3: a command that ends with a non-zero exit status is recorded as a    *)
(* not successful result and is logged as FAILED; it is not handled as an  *)
(* exception (the ERROR lines of the log are those of the commands for     *)
(* which ssh or a file write raised), the run does not end there, and once *)
(* run_commands has returned every command has a result.                   *)
(***************************************************************************)
C3_NonZeroExitIsAResult ==
    /\ \A i \in Attempted :
         (~answers[i].result.raised /\ answers[i].result.returncode # 0) =>
            /\ HasResult(i) /\ ~ResultOf(i).success
            /\ LinesFor("Command for ", commands[i].filename) # {}
            /\ pc # "crashed"
            /\ pc # "run_commands" => \A j \in 1..Len(commands) : HasResult(j)
    /\ \A i \in Attempted :
         (LinesFor("An error occurred while executing command for ",
                   commands[i].filename) # {})
            <=> (answers[i].result.raised \/ answers[i].write_fails)

\* the second command exited with status 1, nothing raised, and the third
\* command was run after it
C3_Witness ==
    /\ Len(answers) = Len(commands)
    /\ ~answers[2].result.raised /\ answers[2].result.returncode = 1
    /\ ~answers[2].write_fails
    /\ HasResult(3)

(***************************************************************************)
(* C4: a control master that was set up is torn down exactly once on       *)
(* every way the run can end: when the run is over and the setup had       *)
(* succeeded, one `ssh -O exit` was issued and no control master is left   *)
(* running.                                                                *)
(***************************************************************************)
C4_ControlMasterClosedOnEveryExit ==
    (Ended /\ control_success) =>
        /\ Cardinality({ k \in 1..Len(sent) : sent[k].kind = "exit" }) = 1
        /\ ~control_master

(***************************************************************************)
(* C5: compress_directory starts only when every command of the batch has  *)
(* its result and none is outstanding; it runs at most once; curl is run   *)
(* only with an archive that was created; a failed compression is logged,  *)
(* and then the upload is skipped and logged as skipped.                   *)
(***************************************************************************)
CompressionStarted == LinesWith("Compressing directory ") # {}

CompressionFailed == LinesWith("Error compressing directory: ") # {}

UploadStarted ==
    \/ transfers # << >>
    \/ pc = "uploaded"
    \/ LinesWith("Uploading archive to Nextcloud...") # {}
    \/ LinesWith("Error using curl for upload: ") # {}
    \/ LinesWith("Upload successful: ") # {}

C5_ArchiveAfterBatchUploadAfterArchive ==
    /\ log # None =>
        /\ CompressionStarted =>
              /\ Len(execution_times) = Len(commands)
              /\ Len(answers) = Len(commands)
              /\ next_command = Len(commands) + 1
              /\ pc \in { "delivery", "uploaded", "done" }
        /\ Cardinality(LinesWith("Compressing directory ")) <= 1
        /\ UploadStarted => (archive_path # None /\ ~CompressionFailed
                             /\ LinesWith("Archive created: ") # {})
        /\ CompressionFailed =>
              /\ archive_path = None
              /\ transfers = << >>
              /\ pc = "done" => LinesWith("Failed to create archive. Upload skipped.") # {}
    /\ log = None => (pc = "main" /\ transfers = << >>)

\* the run is over after a compression that failed, with commands that failed
C5_Witness ==
    /\ pc = "done"
    /\ CompressionFailed
    /\ \E i \in Attempted : ~ResultOf(i).success

(***************************************************************************)
(* C6: every command is classified in one of three ways: success iff the   *)
(* exit status is 0, failure iff ssh returned a non-zero status of the     *)
(* remote command, transportError iff the ssh call itself failed; a        *)
(* connection that could not be made or was closed is a transportError,    *)
(* never a failure.  Stated for the commands whose output files could be  *)
(* written.                                                                *)
(***************************************************************************)

\* the ssh call itself failed: ssh could not be run, or it exited with 255,
\* its status for a connection it could not make or that was closed
ConnectionFailed(process) == process.raised \/ process.returncode = 255

\* how the run classified command i: by its result and its log lines
Classified(i) ==
    IF ResultOf(i).success THEN "success"
    ELSE IF LinesFor("An error occurred while executing command for ",
                     commands[i].filename) # {}
    THEN "transportError"
    ELSE "failure"

C6_ThreeWayClassification ==
    \A i \in Attempted :
        (HasResult(i) /\ ~answers[i].write_fails) =>
            LET process == answers[i].result
            IN /\ Classified(i) = "success" <=> (~process.raised /\ process.returncode = 0)
               /\ Classified(i) = "transportError" <=> ConnectionFailed(process)
               /\ Classified(i) = "failure" <=>
                      (~ConnectionFailed(process) /\ process.returncode # 0)

(***************************************************************************)
(* C7: the upload reports success iff the server answered the PUT with     *)
(* status 200, 201 or 204; any other status is an upload failure.          *)
(***************************************************************************)
C7_SuccessIffStatusAccepted ==
    pc \in { "uploaded", "done" } /\ archive_path # None =>
        (upload_success <=> http_status \in { 200, 201, 204 })

ArgAfter(argv, option) ==
    argv[(CHOOSE i \in 1..Len(argv) : argv[i] = << option >>) + 1]

UploadLineHeads ==
    { "Uploading archive to Nextcloud...", "Cloud URL: ", "Folder Token: ",
      "Running curl command: ", "Upload successful using curl!",
      "Upload failed using curl. Return code: ", "stdout: ", "stderr: ",
      "Error using curl for upload: " }

C9_PasswordNeverLogged ==
    password # << >> =>
        \A k \in 1..Len(log) :
            log[k][1] \in UploadLineHeads => ~Contains(log[k], password)

(***************************************************************************)
(* C10: a share URL that contains "/s/" is cut at its first "/s/": the     *)
(* base URL is what is left of it, the share token all that is right of it *)
(* (later "/s/" included), and the endpoint is                             *)
(* <base>/public.php/webdav/<archive file name>.                           *)
(***************************************************************************)
C10_SplitAtFirstMarker ==
    (pc \in { "uploaded", "done" } /\ Contains(upload_url, << "/", "s", "/" >>)) =>
        LET first == Find(upload_url, << "/", "s", "/" >>, 1)
            base == SubSeq(upload_url, 1, first - 1)
            token == SubSeq(upload_url, first + 3, Len(upload_url))
        IN /\ \E k \in 1..Len(log) : log[k] = << "Cloud URL: " >> \o base
           /\ \E k \in 1..Len(log) : log[k] = << "Folder Token: " >> \o token
           /\ Len(transfers) = 1
           /\ ArgAfter(transfers[1].argv, "-u") = token \o << ":" >> \o password
           /\ transfers[1].argv[Len(transfers[1].argv)] =
                  base \o << "/public.php/webdav/" >>
                  \o << "junos_outputs_local_ts", ".tar.gz" >>

(***************************************************************************)
(* Vocabulary of the properties about the output files and the log.        *)
(***************************************************************************)

\* the files of command i
OutputPath(i) == output_dir \o << "/", commands[i].filename >>
ErrPath(i) == OutputPath(i) \o << ".err" >>

Exists(path) == path \in DOMAIN files

\* ssh returned for command i and no write of its files raised
Captured(i) == ~answers[i].result.raised /\ ~answers[i].write_fails

\* the log lines that tell the outcome of command i and name it
OutcomeLines(i) ==
    LinesFor("Execution time for ", commands[i].filename)
    \cup LinesFor("Command for ", commands[i].filename)
    \cup LinesFor("An error occurred while executing command for ", commands[i].filename)

\* the log lines that give a duration with the outcome FAILED or ERROR, or the
\* duration of a command that succeeded
DurationLines ==
    { k \in 1..Len(log) :
          \/ log[k][1] = "Execution time for "
          \/ (log[k][1] = "Execution time: " /\ Len(log[k]) = 3
              /\ log[k][3] \in { " seconds (FAILED)", " seconds (ERROR)" }) }

RECURSIVE SumOfDurations(_)
SumOfDurations(d) ==
    IF d = << >> THEN 0 ELSE d[1].execution_time + SumOfDurations(Tail(d))

C12_TotalIsSumOfDurations ==
    summary # << >> => summary.total_time = SumOfDurations(execution_times)

(***************************************************************************)
(* C13: in the summary line `Completed X of N commands successfully` that  *)
(* main logs after the last command, N is the number of commands of the    *)
(* batch and X the number of results whose success flag is set, which is   *)
(* also the value of the counter `successful` that run_commands kept.      *)
(***************************************************************************)
SuccessfulResults == { j \in 1..Len(execution_times) : execution_times[j].success }

C13_SummaryCountsSuccesses ==
    /\ successful = Cardinality(SuccessfulResults)
    /\ summary # << >> =>
          /\ summary.total = Len(commands)
          /\ summary.total = Len(execution_times)
          /\ summary.successful = successful
          /\ summary.successful = Cardinality(SuccessfulResults)
          /\ summary.successful =
                 Cardinality({ i \in Attempted : Captured(i)
                                                 /\ answers[i].result.returncode = 0 })
          /\ \E k \in 1..Len(log) :
                 log[k] = << "Completed ", ToString(successful), " of ",
                             ToString(Len(commands)), " commands successfully." >>
    /\ summary = << >> => LinesWith("Completed ") = {}

\* the summary of a batch in which some commands succeeded and some did not
C13_Witness ==
    /\ summary # << >>
    /\ summary.successful > 0
    /\ summary.successful < summary.total

(***************************************************************************)
(* C14: the mode probe is run exactly once, before the first command; the  *)
(* mode is shell iff the probe exited with 0 and printed a path; in shell  *)
(* mode every command is sent wrapped in `cli -c "..."`, otherwise every   *)
(* command is sent as it is; the mode does not change between the commands *)
(* of a run.                                                               *)
(***************************************************************************)
ProbesSent == { k \in 1..Len(sent) : sent[k].kind = "probe" }

ShellDetected ==
    LinesWith("Detected shell environment. Using 'cli' command to execute Junos commands.") # {}

CliDetected ==
    LinesWith("Detected Junos CLI environment. Executing commands directly.") # {}

\* which command of the batch the ssh invocation k carried
CommandIndex(k) == Cardinality({ j \in CommandsSent : j <= k })

C14_ProbedOnce ==
    /\ Cardinality(ProbesSent) <= 1
    /\ pc \notin { "main", "setup_ssh_control_master", "probe" } =>
           Cardinality(ProbesSent) = 1
    /\ \A k \in CommandsSent : \E p \in ProbesSent : p < k
    /\ ~(ShellDetected /\ CliDetected)
    /\ CommandsSent # {} => (in_shell_mode <=> ShellDetected)
    /\ \A k \in CommandsSent :
          LET command == commands[CommandIndex(k)].command
          IN sent[k].remote = IF ShellDetected
                              THEN << "cli -c ", "\"" >> \o command \o << "\"" >>
                              ELSE command

C14_ModeFromProbe ==
    \A result \in ProbeResults :
        (run_commands_probe(result) /\ ~result.raised) =>
            (in_shell_mode' <=> (result.returncode = 0
                                 /\ \E c \in 1..Len(result.stdout) :
                                        result.stdout[c] \in { "/", "\\" }))

C14_ModeIsKept == pc \in { "run_commands", "cleanup" } => in_shell_mode' = in_shell_mode

C14_OneProbeOneMode ==
    /\ [] C14_ProbedOnce
    /\ [][C14_ModeFromProbe /\ C14_ModeIsKept]_vars

\* a shell was detected and the three commands were sent
C14_Witness ==
    /\ ShellDetected
    /\ Cardinality(CommandsSent) = Len(commands)

(***************************************************************************)
(* C15: when the control-master setup fails, by a non-zero exit status or  *)
(* by an exception, the run goes on with the plain ssh command, the log    *)
(* tells of the fallback, the run does not end there and every command of  *)
(* the batch is still sent.                                                *)
(***************************************************************************)
SetupFailed ==
    \/ LinesWith("Failed to establish SSH control connection. You may be prompted for password multiple times.") # {}
    \/ LinesWith("Error setting up SSH control connection: ") # {}

C15_SetupFailureFallsBack ==
    /\ (pc \notin { "main", "setup_ssh_control_master" } /\ ~control_success) =>
          /\ SetupFailed
          /\ ssh_base_cmd = plain_ssh_cmd
          /\ \A k \in 1..Len(sent) : sent[k].kind # "setup" => sent[k].argv = plain_ssh_cmd
    /\ SetupFailed =>
          /\ pc # "crashed"
          /\ Ended => Cardinality(CommandsSent) = Len(commands)

(***************************************************************************)
(* C16: an upload that failed is logged, is not tried again, and leaves    *)
(* the archive and the output files as they were when the archive was      *)
(* made; main goes on to its last log lines, `Upload successful: No` and   *)
(* `Finished at`.                                                          *)
(***************************************************************************)
UploadFailed == pc \in { "uploaded", "done" } /\ archive_path # None /\ ~upload_success

\* the output files are those the archive was made of, and the archive's
\* copy of the log is a part of the log
ArtifactsAsArchived ==
    /\ archive_path = output_dir \o << ".tar.gz" >>
    /\ DOMAIN archive = DOMAIN files \cup { LogPath(output_dir) }
    /\ \A path \in DOMAIN files : archive[path] = files[path]
    /\ LET copy == archive[LogPath(output_dir)]
       IN Len(copy) <= Len(log) /\ SubSeq(log, 1, Len(copy)) = copy

C16_UploadFailureIsNotFatal ==
    UploadFailed =>
        /\ LinesWith("Upload failed using curl. Return code: ")
               \cup LinesWith("Error using curl for upload: ") # {}
        /\ LinesWith("Upload successful using curl!") = {}
        /\ Len(transfers) <= 1
        /\ Cardinality(LinesWith("Running curl command: ")) <= 1
        /\ Cardinality(LinesWith("Error using curl for upload: ")) <= 1
        /\ ArtifactsAsArchived
        /\ pc = "uploaded" => ENABLED main_uploaded
        /\ pc = "done" =>
              /\ log[Len(log) - 1] = << "Upload successful: ", "No" >>
              /\ log[Len(log)][1] = "Finished at: "

\* the run is over after curl could not connect
C16_Witness ==
    /\ pc = "done"
    /\ UploadFailed
    /\ Len(transfers) = 1
    /\ http_status = 0
    /\ LinesWith("Upload failed using curl. Return code: ") # {}

(***************************************************************************)
(* The exit status of the process: main() is called at module level and    *)
(* nothing calls sys.exit with a status, so the status is 0 when main      *)
(* returns and 1 when an exception was not caught; -1 while running.       *)
(***************************************************************************)
ExitStatus == IF pc = "done" THEN 0 ELSE IF pc = "crashed" THEN 1 ELSE -1

(***************************************************************************)
(* C17: the run ends with a status other than success when every way of    *)
(* delivering the archive has failed, and with the success status in every *)
(* other case, failed commands included.  Stated for the runs in which     *)
(* main reaches its end.                                                   *)
(***************************************************************************)
C17_ExitStatusTellsDelivery ==
    pc = "done" => (ExitStatus # 0 <=> (archive_path # None /\ ~upload_success))


(***************************************************************************)
(* C18: the log file is created (opened with 'w') exactly once, by main    *)
(* before anything else runs, and starts with the header; every later      *)
(* write appends, so in every step of the run the log's old content is a   *)
(* prefix of its new content: no line is ever overwritten or removed.      *)
(***************************************************************************)

\* the header main writes when it creates the log
LogHeader == << "Junos Output Retrieval Tool - Execution Log" >>

\* s is a prefix of t
IsPrefix(s, t) == Len(s) <= Len(t) /\ SubSeq(t, 1, Len(s)) = s

C18_CreatedOnceWithHeader ==
    /\ log_creations <= 1
    /\ (pc # "main") => (log_creations = 1 /\ Len(log) >= 2 /\ log[1] = LogHeader
                         /\ log[2][1] = "Started at: ")
    /\ \A k \in 2..Len(log) : log[k] # LogHeader

C18_CreatedAtStart == (log_creations' # log_creations) => (pc = "main" /\ log = None)

C18_Extended == IsPrefix(log, log')

C18_LogOnlyGrows ==
    [] C18_CreatedOnceWithHeader /\ [][C18_CreatedAtStart /\ C18_Extended]_vars

\* a whole run has written to the log: setup, the commands, the summary, the
\* archive and the upload
C18_Witness ==
    /\ pc = "done"
    /\ log_creations = 1
    /\ LinesWith("Started executing command for ") # {}
    /\ LinesWith("Total execution time: ") # {}
    /\ LinesWith("Upload successful: ") # {}


(***************************************************************************)
(* C19: the commands run one after the other: when command i+1 is sent to  *)
(* the device, every earlier command has its result in execution_times,    *)
(* its files written and its outcome line in the log; and in the log the   *)
(* `Started executing command for` line of a command is followed by that   *)
(* command's outcome line before the Started line of any later command.    *)
(***************************************************************************)

\* the log lines that announce command i
StartedLines(i) == LinesFor("Started executing command for ", commands[i].filename)

\* what the loop body leaves behind for command i: its result, the files of
\* its branch when ssh returned and the writes went through, its outcome line
Settled(i) ==
    /\ HasResult(i)
    /\ Captured(i) => IF answers[i].result.returncode = 0
                      THEN Exists(OutputPath(i))
                      ELSE Exists(ErrPath(i))
    /\ OutcomeLines(i) # {}

\* this step runs ssh for a command of the batch
SendsCommand == /\ Len(sent') = Len(sent) + 1
                /\ sent'[Len(sent')].kind = "command"

C19_PreviousSettled ==
    SendsCommand => /\ Len(answers') = Len(answers) + 1
                    /\ Cardinality(CommandsSent) = Len(answers)
                    /\ \A i \in Attempted : Settled(i)

C19_JournalInOrder ==
    /\ Cardinality(CommandsSent) = Len(answers)
    /\ \A i \in 1..Len(commands) :
           IF i \in Attempted
           THEN /\ Cardinality(StartedLines(i)) = 1
                /\ \E o \in OutcomeLines(i) :
                       /\ \A s \in StartedLines(i) : s < o
                       /\ \A j \in Attempted : j > i =>
                              \A s \in StartedLines(j) : o < s
           ELSE StartedLines(i) = {} /\ OutcomeLines(i) = {}

C19_StrictlySequential ==
    [] C19_JournalInOrder /\ [][C19_PreviousSettled]_vars

\* the three commands ran and ended in the three ways: saved, failed, error
C19_Witness ==
    /\ Len(answers) = Len(commands)
    /\ \E i, j, k \in Attempted :
           /\ i < j /\ j < k
           /\ LinesFor("Execution time for ", commands[i].filename) # {}
           /\ LinesFor("Command for ", commands[j].filename) # {}
           /\ answers[k].result.raised


(***************************************************************************)
(* C20: whenever the result of a command has the success flag, the file    *)
(* output_dir/filename exists and holds that command's stdout; a write     *)
(* that raises after a zero return code leaves the result not successful   *)
(* and the count `successful` of run_commands not incremented.             *)
(***************************************************************************)

\* the commands whose result has the success flag
Succeeded == { i \in Attempted : HasResult(i) /\ ResultOf(i).success }

\* ssh returned 0 for command i and a write of its files raised
WriteFailedAfterZero(i) ==
    /\ ~answers[i].result.raised
    /\ answers[i].result.returncode = 0
    /\ answers[i].write_fails

C20_SuccessMeansWritten ==
    /\ \A i \in Succeeded :
           /\ Exists(OutputPath(i))
           /\ files[OutputPath(i)] = answers[i].result.stdout
    /\ \A i \in Attempted : WriteFailedAfterZero(i) => i \notin Succeeded
    /\ successful = Cardinality(Succeeded)

\* one command was saved and another returned 0 but could not be written
C20_Witness ==
    /\ \E i \in Succeeded : answers[i].result.stdout # << >>
    /\ \E i \in Attempted : WriteFailedAfterZero(i) /\ HasResult(i)
    /\ successful < Len(answers)


(***************************************************************************)
(* C21: the teardown of the control master (`ssh -O exit`) is issued if    *)
(* and only if setup_ssh_control_master succeeded, at most once in a run,  *)
(* only after the last command of the batch has its result, and neither    *)
(* the probe nor a command of the batch is run after it.                   *)
(***************************************************************************)

\* the ssh invocations that ask the control master to exit
TeardownsSent == { k \in 1..Len(sent) : sent[k].kind = "exit" }

C21_TeardownIffSetupSucceeded ==
    /\ TeardownsSent # {} => control_success
    /\ Ended => (control_success => TeardownsSent # {})
    /\ Cardinality(TeardownsSent) <= 1
    /\ TeardownsSent # {} => \A i \in 1..Len(commands) : HasResult(i)
    /\ \A k \in TeardownsSent : \A j \in 1..Len(sent) :
           j > k => sent[j].kind \notin { "probe", "command" }


(***************************************************************************)
(* C22: the copy of the log inside the archive is a proper prefix of the   *)
(* log on disk: it has every line up to and including `Compressing         *)
(* directory`, and none of `Archive created`, the lines of the upload,     *)
(* `Upload successful` and `Finished at`, which are appended to the log on *)
(* disk after the archive is built.                                        *)
(***************************************************************************)

\* the copy of the log that tar.add put into the archive
ArchivedLog == archive[LogPath(output_dir)]

\* the heads of the lines written after the archive is built
AfterArchiveHeads ==
    UploadLineHeads \cup { "Archive created: ", "Upload successful: ", "Finished at: " }

C22_ArchivedLogIsProperPrefix ==
    archive_path # None =>
        /\ LogPath(output_dir) \in DOMAIN archive
        /\ IsPrefix(ArchivedLog, log)
        /\ Len(ArchivedLog) < Len(log)
        /\ LinesWith("Compressing directory ") = { Len(ArchivedLog) }
        /\ log[Len(ArchivedLog) + 1][1] = "Archive created: "
        /\ \A k \in 1..Len(ArchivedLog) : ArchivedLog[k][1] \notin AfterArchiveHeads
        /\ pc = "done" => \A head \in { "Archive created: ", "Upload successful: ",
                                        "Finished at: " } :
                              \E k \in LinesWith(head) : k > Len(ArchivedLog)

\* the run is over with an archive, and the log on disk went on after it
C22_Witness ==
    /\ pc = "done"
    /\ archive_path # None
    /\ Len(log) >= Len(ArchivedLog) + 3
    /\ LinesWith("Finished at: ") # {}


(***************************************************************************)
(* C23: for a share URL without `/s/`, upload_with_curl returns False      *)
(* without running curl, the error is written to the log, and main still   *)
(* appends `Upload successful: No` and `Finished at`.                      *)
(***************************************************************************)

\* upload_with_curl was called with a URL that has no /s/ and has returned
UploadedWithoutToken ==
    /\ ~HasToken(upload_url)
    /\ archive_path # None
    /\ pc \in { "uploaded", "done" }

C23_NoTokenFailsWithoutTransfer ==
    UploadedWithoutToken =>
        /\ ~upload_success
        /\ transfers = << >>
        /\ LinesWith("Running curl command: ") = {}
        /\ LinesWith("Uploading archive to Nextcloud...") = {}
        /\ Cardinality(LinesWith("Error using curl for upload: ")) = 1
        /\ \A e \in LinesWith("Error using curl for upload: ") :
               \A a \in LinesWith("Archive created: ") : a < e
        /\ pc = "uploaded" => ENABLED main_uploaded
        /\ pc = "done" =>
              /\ Len(log) >= 3
              /\ log[Len(log) - 2][1] = "Error using curl for upload: "
              /\ log[Len(log) - 1] = << "Upload successful: ", "No" >>
              /\ log[Len(log)][1] = "Finished at: "

\* the run is over for a URL that is not empty and has no /s/
C23_Witness ==
    /\ UploadedWithoutToken
    /\ upload_url # << >>
    /\ pc = "done"
    /\ LinesWith("Finished at: ") # {}

====
